---------------------------- MODULE Spec2Model ----------------------------
(***************************************************************************)
(* A model of the multi-agent chat demos: demo-2.py (the plugins, Agent,   *)
(* Orchestrator and the interactive loop of main) and demo-1.py (the       *)
(* single-history chat loop).                                              *)
(*                                                                         *)
(* Text is modelled as a sequence of one-character strings, so that the    *)
(* string operations of the code (strip, lower, upper, startswith, split,  *)
(* the `in` substring test, f-string concatenation) are computed as the    *)
(* code computes them.                                                     *)
(*                                                                         *)
(* The completion service (semantic_kernel + the remote model) is external *)
(* to the repository.  It is modelled as an environment that, for a        *)
(* request in flight, nondeterministically (a) invokes one function of the *)
(* kernel handed to it and records the result in the chat history that was *)
(* passed by reference, (b) returns a final message or (c) raises.         *)
(***************************************************************************)
EXTENDS Integers, Sequences, FiniteSets, TLC

(***************************************************************************)
(* Python str operations used by the code.                                 *)
(***************************************************************************)
UpperLetters ==
  <<"A","B","C","D","E","F","G","H","I","J","K","L","M","N","O","P","Q","R","S","T","U","V","W",
    "X","Y","Z">>

LowerLetters ==
  <<"a","b","c","d","e","f","g","h","i","j","k","l","m","n","o","p","q","r","s","t","u","v","w",
    "x","y","z">>

Whitespace == {" ", "\t", "\n", "\r"}

LowerChar(c) ==
  IF \E i \in DOMAIN UpperLetters : UpperLetters[i] = c
  THEN LowerLetters[CHOOSE i \in DOMAIN UpperLetters : UpperLetters[i] = c]
  ELSE c

UpperChar(c) ==
  IF \E i \in DOMAIN LowerLetters : LowerLetters[i] = c
  THEN UpperLetters[CHOOSE i \in DOMAIN LowerLetters : LowerLetters[i] = c]
  ELSE c

\* str.lower()
lower(s) == [i \in 1..Len(s) |-> LowerChar(s[i])]

\* str.upper()
upper(s) == [i \in 1..Len(s) |-> UpperChar(s[i])]

RECURSIVE lstrip(_)
lstrip(s) == IF s # <<>> /\ Head(s) \in Whitespace THEN lstrip(Tail(s)) ELSE s

RECURSIVE rstrip(_)
rstrip(s) ==
  IF s # <<>> /\ s[Len(s)] \in Whitespace THEN rstrip(SubSeq(s, 1, Len(s) - 1)) ELSE s

\* str.strip()
strip(s) == rstrip(lstrip(s))

\* str.startswith(p)
startswith(s, p) == Len(s) >= Len(p) /\ SubSeq(s, 1, Len(p)) = p

\* the substring test `key in s`
contains(s, key) ==
  \E i \in 1..(Len(s) - Len(key) + 1) : SubSeq(s, i, i + Len(key) - 1) = key

\* str.split(c) for a one-character separator c: the list of the pieces
RECURSIVE split(_, _)
split(s, c) ==
  IF \A i \in 1..Len(s) : s[i] # c
  THEN <<s>>
  ELSE LET i == CHOOSE k \in 1..Len(s) : s[k] = c /\ \A j \in 1..(k - 1) : s[j] # c
       IN  <<SubSeq(s, 1, i - 1)>> \o split(SubSeq(s, i + 1, Len(s)), c)

\* Python's None
None == "None"

(***************************************************************************)
(* String literals of demo-2.py.                                           *)
(***************************************************************************)
SwitchPrefix ==
  <<"s","w","i","t","c","h",":">>

ExitWord ==
  <<"e","x","i","t">>

ResearchName ==
  <<"R","e","s","e","a","r","c","h","A","g","e","n","t">>

ResearchRole ==
  <<"R","e","s","e","a","r","c","h"," ","S","p","e","c","i","a","l","i","s","t">>

ResearchSystemMessage ==
  <<"Y","o","u"," ","a","r","e"," ","a"," ","r","e","s","e","a","r","c","h"," ","s","p","e","c",
    "i","a","l","i","s","t","."," ","Y","o","u","r"," ","j","o","b"," ","i","s"," ","t","o"," ",
    "g","a","t","h","e","r"," ","a","n","d"," ","s","u","m","m","a","r","i","z","e"," ","i","n",
    "f","o","r","m","a","t","i","o","n"," ","o","n"," ","v","a","r","i","o","u","s"," ","t","o",
    "p","i","c","s","."," ","U","s","e"," ","t","h","e"," ","s","e","a","r","c","h","_","i","n",
    "f","o","r","m","a","t","i","o","n"," ","t","o","o","l"," ","w","h","e","n"," ","n","e","e",
    "d","e","d",".">>

AnalystName ==
  <<"A","n","a","l","y","s","t","A","g","e","n","t">>

AnalystRole ==
  <<"D","a","t","a"," ","A","n","a","l","y","s","t">>

AnalystSystemMessage ==
  <<"Y","o","u"," ","a","r","e"," ","a"," ","d","a","t","a"," ","a","n","a","l","y","s","t",".",
    " ","Y","o","u","r"," ","j","o","b"," ","i","s"," ","t","o"," ","a","n","a","l","y","z","e",
    " ","d","a","t","a"," ","a","n","d"," ","p","r","o","v","i","d","e"," ","i","n","s","i","g",
    "h","t","s","."," ","U","s","e"," ","t","h","e"," ","a","n","a","l","y","z","e","_","d","a",
    "t","a"," ","t","o","o","l"," ","w","h","e","n"," ","n","e","e","d","e","d",".">>

WriterName ==
  <<"W","r","i","t","e","r","A","g","e","n","t">>

WriterRole ==
  <<"C","o","n","t","e","n","t"," ","W","r","i","t","e","r">>

WriterSystemMessage ==
  <<"Y","o","u"," ","a","r","e"," ","a"," ","p","r","o","f","e","s","s","i","o","n","a","l"," ",
    "c","o","n","t","e","n","t"," ","w","r","i","t","e","r","."," ","Y","o","u","r"," ","j","o",
    "b"," ","i","s"," ","t","o"," ","c","r","e","a","t","e"," ","w","e","l","l","-","w","r","i",
    "t","t","e","n"," ","c","o","n","t","e","n","t"," ","o","n"," ","v","a","r","i","o","u","s",
    " ","t","o","p","i","c","s","."," ","U","s","e"," ","t","h","e"," ","c","r","e","a","t","e",
    "_","c","o","n","t","e","n","t"," ","t","o","o","l"," ","w","h","e","n"," ","n","e","e","d",
    "e","d",".">>

CoordinatorName ==
  <<"C","o","o","r","d","i","n","a","t","o","r">>

CoordinatorRole ==
  <<"T","a","s","k"," ","C","o","o","r","d","i","n","a","t","o","r">>

CoordinatorSystemMessage ==
  <<"Y","o","u"," ","a","r","e"," ","a"," ","c","o","o","r","d","i","n","a","t","o","r"," ","t",
    "h","a","t"," ","r","o","u","t","e","s"," ","t","a","s","k","s"," ","t","o"," ","s","p","e",
    "c","i","a","l","i","z","e","d"," ","a","g","e","n","t","s","."," ","Y","o","u"," ","h","a",
    "v","e"," ","a","c","c","e","s","s"," ","t","o"," ","t","h","r","e","e"," ","a","g","e","n",
    "t","s",":","\n","1","."," ","R","e","s","e","a","r","c","h","A","g","e","n","t"," ","-",
    " ","f","o","r"," ","r","e","s","e","a","r","c","h"," ","a","n","d"," ","i","n","f","o","r",
    "m","a","t","i","o","n"," ","g","a","t","h","e","r","i","n","g","\n","2","."," ","A","n",
    "a","l","y","s","t","A","g","e","n","t"," ","-"," ","f","o","r"," ","d","a","t","a"," ","a",
    "n","a","l","y","s","i","s","\n","3","."," ","W","r","i","t","e","r","A","g","e","n","t",
    " ","-"," ","f","o","r"," ","c","o","n","t","e","n","t"," ","c","r","e","a","t","i","o","n",
    "\n","\n","W","h","e","n"," ","a"," ","u","s","e","r"," ","a","s","k","s"," ","a"," ","q",
    "u","e","s","t","i","o","n",","," ","d","e","t","e","r","m","i","n","e"," ","w","h","i","c",
    "h"," ","a","g","e","n","t","(","s",")"," ","s","h","o","u","l","d"," ","h","a","n","d","l",
    "e"," ","i","t"," ","a","n","d"," ","e","x","p","l","a","i","n"," ","y","o","u","r"," ","r",
    "o","u","t","i","n","g"," ","d","e","c","i","s","i","o","n",".">>

KeyPython ==
  <<"p","y","t","h","o","n">>

DataPython ==
  <<"P","y","t","h","o","n"," ","i","s"," ","a"," ","h","i","g","h","-","l","e","v","e","l",",",
    " ","i","n","t","e","r","p","r","e","t","e","d"," ","p","r","o","g","r","a","m","m","i","n",
    "g"," ","l","a","n","g","u","a","g","e"," ","k","n","o","w","n"," ","f","o","r"," ","i","t",
    "s"," ","s","i","m","p","l","i","c","i","t","y"," ","a","n","d"," ","r","e","a","d","a","b",
    "i","l","i","t","y","."," ","I","t"," ","w","a","s"," ","c","r","e","a","t","e","d"," ","b",
    "y"," ","G","u","i","d","o"," ","v","a","n"," ","R","o","s","s","u","m"," ","a","n","d"," ",
    "f","i","r","s","t"," ","r","e","l","e","a","s","e","d"," ","i","n"," ","1","9","9","1",".">>

KeyAi ==
  <<"a","i">>

DataAi ==
  <<"A","r","t","i","f","i","c","i","a","l"," ","I","n","t","e","l","l","i","g","e","n","c","e",
    " ","(","A","I",")"," ","r","e","f","e","r","s"," ","t","o"," ","t","h","e"," ","s","i","m",
    "u","l","a","t","i","o","n"," ","o","f"," ","h","u","m","a","n"," ","i","n","t","e","l","l",
    "i","g","e","n","c","e"," ","i","n"," ","m","a","c","h","i","n","e","s","."," ","I","t"," ",
    "i","n","c","l","u","d","e","s"," ","m","a","c","h","i","n","e"," ","l","e","a","r","n","i",
    "n","g",","," ","n","a","t","u","r","a","l"," ","l","a","n","g","u","a","g","e"," ","p","r",
    "o","c","e","s","s","i","n","g",","," ","a","n","d"," ","c","o","m","p","u","t","e","r"," ",
    "v","i","s","i","o","n",".">>

KeyQuantumComputing ==
  <<"q","u","a","n","t","u","m"," ","c","o","m","p","u","t","i","n","g">>

DataQuantumComputing ==
  <<"Q","u","a","n","t","u","m"," ","c","o","m","p","u","t","i","n","g"," ","u","s","e","s"," ",
    "q","u","a","n","t","u","m","-","m","e","c","h","a","n","i","c","a","l"," ","p","h","e","n",
    "o","m","e","n","a"," ","l","i","k","e"," ","s","u","p","e","r","p","o","s","i","t","i","o",
    "n"," ","a","n","d"," ","e","n","t","a","n","g","l","e","m","e","n","t"," ","t","o"," ","p",
    "e","r","f","o","r","m"," ","o","p","e","r","a","t","i","o","n","s"," ","o","n"," ","d","a",
    "t","a","."," ","I","t"," ","h","a","s"," ","t","h","e"," ","p","o","t","e","n","t","i","a",
    "l"," ","t","o"," ","s","o","l","v","e"," ","c","e","r","t","a","i","n"," ","p","r","o","b",
    "l","e","m","s"," ","m","u","c","h"," ","f","a","s","t","e","r"," ","t","h","a","n"," ","c",
    "l","a","s","s","i","c","a","l"," ","c","o","m","p","u","t","e","r","s",".">>

ResearchText1 ==
  <<"R","e","s","e","a","r","c","h"," ","o","n"," ","'">>

ResearchText2 ==
  <<"'",":"," ","T","h","i","s"," ","i","s"," ","a"," ","c","o","m","p","l","e","x"," ","t","o",
    "p","i","c"," ","t","h","a","t"," ","r","e","q","u","i","r","e","s"," ","f","u","r","t","h",
    "e","r"," ","i","n","v","e","s","t","i","g","a","t","i","o","n",".">>

AnalysisText1 ==
  <<"A","n","a","l","y","s","i","s"," ","o","f"," ","'">>

AnalysisText2 ==
  <<"'",":"," ","T","h","e"," ","d","a","t","a"," ","s","h","o","w","s"," ","a"," ","p","o","s",
    "i","t","i","v","e"," ","t","r","e","n","d"," ","w","i","t","h"," ","a"," ","1","5","%"," ",
    "i","n","c","r","e","a","s","e"," ","o","v","e","r"," ","t","h","e"," ","p","r","e","v","i",
    "o","u","s"," ","p","e","r","i","o","d","."," ","K","e","y"," ","i","n","s","i","g","h","t",
    "s"," ","i","n","c","l","u","d","e"," ","i","m","p","r","o","v","e","d"," ","p","e","r","f",
    "o","r","m","a","n","c","e"," ","m","e","t","r","i","c","s"," ","a","n","d"," ","u","s","e",
    "r"," ","e","n","g","a","g","e","m","e","n","t",".">>

ContentText1 ==
  <<"[">>

ContentText2 ==
  <<" ","C","O","N","T","E","N","T","]","\n","\n">>

ContentText3 ==
  <<"\n","\n","T","h","i","s"," ","i","s"," ","a"," ","w","e","l","l","-","c","r","a","f","t",
    "e","d"," ","p","i","e","c","e"," ","o","f"," ","c","o","n","t","e","n","t"," ","t","a","i",
    "l","o","r","e","d"," ","t","o"," ","t","h","e"," ">>

ContentText4 ==
  <<" ","s","t","y","l","e",","," ","c","o","v","e","r","i","n","g"," ","t","h","e"," ","k","e",
    "y"," ","a","s","p","e","c","t","s"," ","o","f"," ">>

ContentText5 ==
  <<" ","w","i","t","h"," ","a","p","p","r","o","p","r","i","a","t","e"," ","d","e","p","t","h",
    " ","a","n","d"," ","c","l","a","r","i","t","y",".">>
LineExit ==
  <<"e","x","i","t">>

LineExitUpper ==
  <<"E","X","I","T">>

LineExitPadded ==
  <<" ","E","x","i","t"," ">>

LineExitNow ==
  <<"e","x","i","t"," ","n","o","w">>

LineSwitchResearch ==
  <<"s","w","i","t","c","h",":","R","e","s","e","a","r","c","h","A","g","e","n","t">>

LineSwitchWriterPadded ==
  <<" "," ","s","w","i","t","c","h",":"," ","W","r","i","t","e","r","A","g","e","n","t"," ">>

LineSwitchAnalystMore ==
  <<"s","w","i","t","c","h",":","A","n","a","l","y","s","t","A","g","e","n","t",":","p","l","e",
    "a","s","e">>

LineSwitchNobody ==
  <<"s","w","i","t","c","h",":","N","o","b","o","d","y">>

LineSwitchCapital ==
  <<"S","w","i","t","c","h",":","W","r","i","t","e","r","A","g","e","n","t">>

LineEmpty ==
  <<>>

LineBlank ==
  <<" "," ">>

LineHiPadded ==
  <<" ","h","i"," ">>

MissingName ==
  <<"m","i","s","s","i","n","g">>

ReplyText ==
  <<"S","u","r","e",".">>

TopicPython ==
  <<"P","y","t","h","o","n"," ","3">>

TopicBlockchain ==
  <<"b","l","o","c","k","c","h","a","i","n">>

DataQ3 ==
  <<"Q","3"," ","s","a","l","e","s">>

TopicAI ==
  <<"A","I">>

StyleCasual ==
  <<"c","a","s","u","a","l">>

TopicQuantum ==
  <<"Q","u","a","n","t","u","m"," ","C","o","m","p","u","t","i","n","g">>

TopicPythonUpper ==
  <<"P","Y","T","H","O","N">>

TopicRust ==
  <<"r","u","s","t">>

StyleFormal ==
  <<"F","o","r","m","a","l">>

StyleProfessional ==
  <<"p","r","o","f","e","s","s","i","o","n","a","l">>

StyleTwoLines ==
  <<"t","o","\n","d","o">>

(***************************************************************************)
(* The plugins (demo-2.py, lines 14-67).                                   *)
(***************************************************************************)
\* research_data, in the order the dict literal lists (and iterates) its items
research_data ==
  << [key |-> KeyPython, value |-> DataPython],
     [key |-> KeyAi, value |-> DataAi],
     [key |-> KeyQuantumComputing, value |-> DataQuantumComputing] >>

\* ResearchPlugin.search_information: the value of the first key found in the
\* lower-cased topic, else the fallback text built around the topic
search_information(topic) ==
  LET topic_lower == lower(topic)
      hits == {i \in DOMAIN research_data : contains(topic_lower, research_data[i].key)}
  IN  IF hits # {}
      THEN research_data[CHOOSE i \in hits : \A j \in hits : i <= j].value
      ELSE ResearchText1 \o topic \o ResearchText2

\* DataAnalysisPlugin.analyze_data
analyze_data(data_description) == AnalysisText1 \o data_description \o AnalysisText2

\* a slip : the heading with the style as given, upper() left out
create_content_as_given(topic, style) ==
  ContentText1 \o style \o ContentText2 \o topic \o ContentText3 \o style
    \o ContentText4 \o topic \o ContentText5

\* WritingPlugin.create_content
create_content(topic, style) ==
  ContentText1 \o upper(style) \o ContentText2 \o topic \o ContentText3 \o style
    \o ContentText4 \o topic \o ContentText5

\* the kernel functions each plugin class declares with @kernel_function
PluginFunctions(plugin) ==
  CASE plugin = "ResearchPlugin" -> {"search_information"}
    [] plugin = "DataAnalysisPlugin" -> {"analyze_data"}
    [] plugin = "WritingPlugin" -> {"create_content"}
    [] OTHER -> {}

\* the call of a kernel function with positional arguments
InvokeFunction(function_name, arguments) ==
  CASE function_name = "search_information" -> search_information(arguments[1])
    [] function_name = "analyze_data" -> analyze_data(arguments[1])
    [] function_name = "create_content" -> create_content(arguments[1], arguments[2])

(***************************************************************************)
(* Python dicts keep insertion order: a dict is a sequence of items with   *)
(* distinct keys.                                                          *)
(***************************************************************************)
dict_has(d, k) == \E i \in DOMAIN d : d[i].key = k

\* a slip : an existing key is deleted and inserted again, so that it goes last
dict_set_moved(d, k, v) ==
  Append(SelectSeq(d, LAMBDA item : item.key # k), [key |-> k, value |-> v])

\* d[k] = v : a new key goes last, an existing key keeps its place
dict_set(d, k, v) ==
  IF dict_has(d, k)
  THEN [i \in DOMAIN d |-> IF d[i].key = k THEN [key |-> k, value |-> v] ELSE d[i]]
  ELSE Append(d, [key |-> k, value |-> v])

\* d.get(k) : None for a missing key, never an exception
dict_get(d, k) ==
  IF dict_has(d, k) THEN d[CHOOSE i \in DOMAIN d : d[i].key = k].value ELSE None

\* d.values()
dict_values(d) == [i \in DOMAIN d |-> d[i].value]

(***************************************************************************)
(* Agent objects.  An Agent instance is identified by the variable that    *)
(* holds it in main; its name, role and system_message are set once by     *)
(* __init__ and never assigned again.  front_desk_agent and archive_agent  *)
(* are further instances, used to exercise the Orchestrator with names     *)
(* that are already taken.                                                 *)
(***************************************************************************)
MainAgents == <<"research_agent", "analyst_agent", "writer_agent", "coordinator_agent">>

Instances ==
  {"research_agent", "analyst_agent", "writer_agent", "coordinator_agent",
   "front_desk_agent", "archive_agent"}

Agent(a) ==
  CASE a = "research_agent" ->
         [name |-> ResearchName, role |-> ResearchRole,
          system_message |-> ResearchSystemMessage]
    [] a = "analyst_agent" ->
         [name |-> AnalystName, role |-> AnalystRole,
          system_message |-> AnalystSystemMessage]
    [] a = "writer_agent" ->
         [name |-> WriterName, role |-> WriterRole,
          system_message |-> WriterSystemMessage]
    [] a = "coordinator_agent" ->
         [name |-> CoordinatorName, role |-> CoordinatorRole,
          system_message |-> CoordinatorSystemMessage]
    [] a = "front_desk_agent" ->
         [name |-> CoordinatorName, role |-> WriterRole,
          system_message |-> WriterSystemMessage]
    [] a = "archive_agent" ->
         [name |-> ResearchName, role |-> AnalystRole,
          system_message |-> AnalystSystemMessage]

\* demo-1.py has no Agent: its main owns one chat history, named here after it
Demo1 == "demo_1_main"

\* the owners of a chat history
Owners == Instances \cup {Demo1}

Demo1SystemMessage ==
  <<"Y","o","u"," ","a","r","e"," ","P","y","t","h","o","n"," ","d","e","v","e","l","o","p","e",
    "r"," ","a","n","d"," ","y","o","u","r"," ","n","a","m","e"," ","A","l","e","x",","," ","y",
    "o","u"," ","w","i","l","l"," ","o","n","l","y"," ","a","n","s","w","e","r","s"," ","q","u",
    "e","r","i","e","s"," ","p","y","t","h","o","n",".">>

\* the plugin main registers on each agent, under the plugin's class name
MainPlugin(a) ==
  CASE a = "research_agent" -> <<"ResearchPlugin">>
    [] a = "analyst_agent" -> <<"DataAnalysisPlugin">>
    [] a = "writer_agent" -> <<"WritingPlugin">>
    [] OTHER -> <<>>

(***************************************************************************)
(* ChatHistory: a sequence of turns.                                       *)
(***************************************************************************)
Turn(role, content) == [role |-> role, content |-> content, tool_call |-> <<>>]

add_system_message(history, content) == Append(history, Turn("System", content))

add_user_message(history, content) == Append(history, Turn("User", content))

add_assistant_message(history, content) == Append(history, Turn("Assistant", content))

\* the record of one function invocation made for the completion service
add_tool_result(history, function_name, arguments) ==
  Append(history, [role |-> "ToolResult",
                   content |-> InvokeFunction(function_name, arguments),
                   tool_call |-> <<function_name>> \o arguments])

\* a slip : the system message appended as a user message
AgentChatHistoryAsUser(a) == add_user_message(<<>>, Agent(a).system_message)

\* Agent.__init__ : a fresh ChatHistory holding the system message
AgentChatHistory(a) == add_system_message(<<>>, Agent(a).system_message)

\* the chat history an owner starts with : Agent.__init__, and demo-1.py, lines 25-28
InitialChatHistory(a) ==
  IF a = Demo1 THEN add_system_message(<<>>, Demo1SystemMessage) ELSE AgentChatHistory(a)

\* Agent.add_plugin : kernel.add_plugin(plugin, plugin_name)
add_plugin(kernel_plugins, plugin, plugin_name) == dict_set(kernel_plugins, plugin_name, plugin)

\* the functions of an agent's kernel, in registration order
RECURSIVE KernelFunctions(_)
KernelFunctions(kernel_plugins) ==
  IF kernel_plugins = <<>> THEN {}
  ELSE PluginFunctions(Head(kernel_plugins).value) \cup KernelFunctions(Tail(kernel_plugins))

(***************************************************************************)
(* Orchestrator.                                                           *)
(***************************************************************************)
\* another policy : the first registration of a name is kept (dict.setdefault)
add_agent_keep_first(mapping, agent) ==
  IF dict_has(mapping, Agent(agent).name) THEN mapping
  ELSE dict_set(mapping, Agent(agent).name, agent)

\* Orchestrator.add_agent : self.agents[agent.name] = agent
add_agent(mapping, agent) == dict_set(mapping, Agent(agent).name, agent)

\* a slip : self.agents[name], which raises KeyError for a missing name
get_agent_subscript(mapping, name) ==
  IF dict_has(mapping, name) THEN dict_get(mapping, name) ELSE "KeyError"

\* Orchestrator.get_agent : self.agents.get(name)
get_agent(mapping, name) == dict_get(mapping, name)

\* Orchestrator.list_agents
list_agents(mapping) ==
  [i \in DOMAIN mapping |->
     [name |-> Agent(mapping[i].value).name, role |-> Agent(mapping[i].value).role]]
(***************************************************************************)
(* Bounds of the model and the inputs it draws from.                       *)
(***************************************************************************)
\* input lines read in one session
MaxLines == 3

\* function invocations the completion service makes in one session
MaxToolCalls == 2

\* add_agent calls made on one Orchestrator
MaxAdds == 3

\* the smallest iteration cap the design recommends for the tool loop (5 to 10);
\* the code itself sets none
IterationCap == 5

\* function invocations followed within one process call when the completion
\* service answers every request with a function call
MaxToolIters == IterationCap + 1

\* the lines the user may type
Lines ==
  {LineExit, LineExitUpper, LineExitPadded, LineExitNow, LineSwitchResearch,
   LineSwitchWriterPadded, LineSwitchAnalystMore, LineSwitchNobody, LineSwitchCapital,
   LineEmpty, LineBlank, LineHiPadded}

\* the final messages the completion service may return
Replies == {ReplyText, <<>>}

\* the argument lists the completion service may pass to a kernel function
Arguments(function_name) ==
  CASE function_name = "search_information" -> {<<TopicPython>>, <<TopicBlockchain>>}
    [] function_name = "analyze_data" -> {<<DataQ3>>}
    [] function_name = "create_content" -> {<<TopicAI, StyleCasual>>}

\* the names get_agent is asked for
Names == {Agent(a).name : a \in Instances} \cup {MissingName}

(***************************************************************************)
(* State.                                                                  *)
(***************************************************************************)
VARIABLES
  agents,         \* Orchestrator.agents : the dict name -> Agent
  chat_history,   \* Agent.chat_history of every Agent instance
  kernel_plugins, \* the plugins of every Agent's kernel : plugin_name -> plugin
  program,        \* the script that runs : "demo-2" or "demo-1"
  current_agent,  \* main's current_agent
  user_input,     \* main's user_input : the line read, stripped
  pc,             \* where main is : "input", "await", "exited" or "crashed"
  astate,         \* per Agent : "Idle" or "AwaitingCompletion" (a process call in flight)
  iters,          \* per Agent : function invocations made during the call in flight
  request,        \* the last request handed to the completion service
  outcome,        \* how the last process call ended : returned value or raised error
  raw_line,       \* history variable : the last line as typed, before strip()
  calls,          \* history variable : the process calls made, in order
  nlines,         \* history variable : lines read so far
  ntools,         \* history variable : function invocations made so far
  added,          \* history variable : the add_agent calls made, in order (in the
                  \* plugin set-up : the add_plugin calls)
  ret             \* the value returned by the last Orchestrator query

vars ==
  <<agents, chat_history, kernel_plugins, program, current_agent, user_input, pc, astate, iters,
    request, outcome, raw_line, calls, nlines, ntools, added, ret>>

agentVars == <<chat_history, astate, iters, request, outcome, calls, ntools>>

NoRequest == [agent |-> None, manifest |-> {}, function_choice_behavior |-> None]

NoOutcome == [kind |-> "none", value |-> <<>>, error |-> None]

\* ret : the operation, the name asked for or registered, the Agent passed or
\* returned, the list returned, the error raised and the mapping before the call
NoReturn ==
  [op |-> None, name |-> <<>>, agent |-> None, summaries |-> <<>>, raised |-> None,
   before |-> <<>>]

\* main, lines 128-171 : the four agents registered in the order main adds them
RECURSIVE RegisterAll(_, _)
RegisterAll(mapping, list) ==
  IF list = <<>> THEN mapping ELSE RegisterAll(add_agent(mapping, Head(list)), Tail(list))

\* the objects as the constructors and main's set-up leave them
ConstructedInit ==
  /\ chat_history = [a \in Owners |-> InitialChatHistory(a)]
  /\ kernel_plugins =
       [a \in Owners |->
          IF MainPlugin(a) = <<>> THEN <<>>
          ELSE add_plugin(<<>>, MainPlugin(a)[1], MainPlugin(a)[1])]
  /\ astate = [a \in Owners |-> "Idle"]
  /\ iters = [a \in Owners |-> 0]
  /\ request = NoRequest
  /\ outcome = NoOutcome
  /\ user_input = <<>>
  /\ raw_line = <<>>
  /\ calls = <<>>
  /\ nlines = 0
  /\ ntools = 0
  /\ ret = NoReturn

\* demo-2.py : main at line 176, about to read the first line
InitDemo2 ==
  /\ ConstructedInit
  /\ program = "demo-2"
  /\ agents = RegisterAll(<<>>, MainAgents)
  /\ added = MainAgents
  /\ current_agent = "coordinator_agent"
  /\ pc = "input"

\* demo-1.py : main at line 33, about to read the first line; it has no
\* Orchestrator and no current agent
InitDemo1 ==
  /\ ConstructedInit
  /\ program = "demo-1"
  /\ agents = <<>>
  /\ added = <<>>
  /\ current_agent = None
  /\ pc = "input"

Init == InitDemo2 \/ InitDemo1

(***************************************************************************)
(* Agent.process (demo-2.py, lines 94-107), split at its await.            *)
(***************************************************************************)
\* history variable : the call in flight on agent a is marked with how it ended
EndCall(a, status) ==
  [i \in DOMAIN calls |->
     IF calls[i].agent = a /\ calls[i].status = "in flight"
     THEN [calls[i] EXCEPT !.status = status]
     ELSE calls[i]]

\* a slip : one ChatHistory shared by all owners (a class attribute), so that the
\* user message shows in every chat history
SendRequestShared(a, message, manifest, behavior) ==
  /\ chat_history' = [b \in DOMAIN chat_history |-> add_user_message(chat_history[b], message)]
  /\ request' = [agent |-> a, manifest |-> manifest, function_choice_behavior |-> behavior]
  /\ astate' = [astate EXCEPT ![a] = "AwaitingCompletion"]
  /\ iters' = [iters EXCEPT ![a] = 0]
  /\ outcome' = NoOutcome
  /\ calls' = Append(calls, [agent |-> a, message |-> message, status |-> "in flight",
                              before |-> chat_history[a]])
  /\ UNCHANGED ntools

\* the user message is appended and the chat history is sent to the completion
\* service, with the functions and the function choice behaviour given
SendRequest(a, message, manifest, behavior) ==
  /\ chat_history' = [chat_history EXCEPT ![a] = add_user_message(@, message)]
  /\ request' = [agent |-> a, manifest |-> manifest, function_choice_behavior |-> behavior]
  /\ astate' = [astate EXCEPT ![a] = "AwaitingCompletion"]
  /\ iters' = [iters EXCEPT ![a] = 0]
  /\ outcome' = NoOutcome
  /\ calls' = Append(calls, [agent |-> a, message |-> message, status |-> "in flight",
                              before |-> chat_history[a]])
  /\ UNCHANGED ntools

\* lines 95-104 : append the user message, build the settings (automatic
\* function choice, whatever the kernel holds) and send the request with the kernel
ProcessBegin(a, message) ==
  SendRequest(a, message, KernelFunctions(kernel_plugins[a]), "Auto")

\* during the await : the completion service, given the kernel and automatic
\* function choice, invokes one of the kernel's functions and records the
\* result in the chat history it was handed
ToolInvoked(a, function_name, arguments) ==
  /\ astate[a] = "AwaitingCompletion"
  /\ request.agent = a
  /\ request.function_choice_behavior = "Auto"
  /\ function_name \in request.manifest
  /\ chat_history' = [chat_history EXCEPT ![a] = add_tool_result(@, function_name, arguments)]
  /\ iters' = [iters EXCEPT ![a] = @ + 1]
  /\ ntools' = ntools + 1
  /\ UNCHANGED <<astate, request, outcome, calls>>

\* a slip : the response returned without being appended
ProcessReturnsUnrecorded(a, text) ==
  /\ astate[a] = "AwaitingCompletion"
  /\ astate' = [astate EXCEPT ![a] = "Idle"]
  /\ outcome' = [kind |-> "returned", value |-> text, error |-> None]
  /\ calls' = EndCall(a, "returned")
  /\ UNCHANGED <<chat_history, iters, request, ntools>>

\* a slip : the text returned is put in another form than the text appended
ProcessReturnsRewritten(a, text) ==
  /\ astate[a] = "AwaitingCompletion"
  /\ chat_history' = [chat_history EXCEPT ![a] = add_assistant_message(@, text)]
  /\ astate' = [astate EXCEPT ![a] = "Idle"]
  /\ outcome' = [kind |-> "returned", value |-> upper(text), error |-> None]
  /\ calls' = EndCall(a, "returned")
  /\ UNCHANGED <<iters, request, ntools>>

\* lines 106-107 : the await returned a response; append it and return it
ProcessReturns(a, text) ==
  /\ astate[a] = "AwaitingCompletion"
  /\ chat_history' = [chat_history EXCEPT ![a] = add_assistant_message(@, text)]
  /\ astate' = [astate EXCEPT ![a] = "Idle"]
  /\ outcome' = [kind |-> "returned", value |-> text, error |-> None]
  /\ calls' = EndCall(a, "returned")
  /\ UNCHANGED <<iters, request, ntools>>

\* another policy : the failed call's turns are rolled back
ProcessRaisesRollback(a) ==
  /\ astate[a] = "AwaitingCompletion"
  /\ astate' = [astate EXCEPT ![a] = "Idle"]
  /\ chat_history' =
       [chat_history EXCEPT
          ![a] = calls[CHOOSE i \in DOMAIN calls :
                         calls[i].agent = a /\ calls[i].status = "in flight"].before]
  /\ outcome' = [kind |-> "raised", value |-> <<>>, error |-> "CompletionServiceError"]
  /\ calls' = EndCall(a, "raised")
  /\ UNCHANGED <<iters, request, ntools>>

\* a slip : the error caught and recorded as the assistant's answer before re-raising
ProcessRaisesRecorded(a) ==
  /\ astate[a] = "AwaitingCompletion"
  /\ astate' = [astate EXCEPT ![a] = "Idle"]
  /\ chat_history' = [chat_history EXCEPT ![a] = add_assistant_message(@, <<>>)]
  /\ outcome' = [kind |-> "raised", value |-> <<>>, error |-> "CompletionServiceError"]
  /\ calls' = EndCall(a, "raised")
  /\ UNCHANGED <<iters, request, ntools>>

\* lines 100-104 : the await raised; process has no handler, the error of the
\* completion service leaves process as it is
ProcessRaises(a) ==
  /\ astate[a] = "AwaitingCompletion"
  /\ astate' = [astate EXCEPT ![a] = "Idle"]
  /\ outcome' = [kind |-> "raised", value |-> <<>>, error |-> "CompletionServiceError"]
  /\ calls' = EndCall(a, "raised")
  /\ UNCHANGED <<chat_history, iters, request, ntools>>

(***************************************************************************)
(* The interactive loop of main (demo-2.py, lines 176-199).  Each of the   *)
(* first four actions is one iteration of the loop for a line typed by the *)
(* user, up to its continue, break or await.                               *)
(***************************************************************************)
\* what the interactive loops never write
fixedVars == <<agents, added, ret, kernel_plugins, program>>

\* line 177 : input(...).strip()
ReadLine(line) ==
  /\ program = "demo-2"
  /\ pc = "input"
  /\ nlines < MaxLines
  /\ raw_line' = line
  /\ user_input' = strip(line)
  /\ nlines' = nlines + 1

IsExit(text) == lower(text) = ExitWord

IsSwitch(text) == startswith(text, SwitchPrefix)

\* line 184 : user_input.split(":")[1].strip()
SwitchName(text) == strip(split(text, ":")[2])

\* lines 179-181
Exit(line) ==
  /\ ReadLine(line)
  /\ IsExit(strip(line))
  /\ pc' = "exited"
  /\ UNCHANGED <<current_agent, agentVars, fixedVars>>

\* a slip : the continue of line 191 left out, so that the switch line goes on
\* to current_agent.process
SwitchFallsThrough(line) ==
  /\ ReadLine(line)
  /\ ~IsExit(strip(line))
  /\ IsSwitch(strip(line))
  /\ LET agent == get_agent(agents, SwitchName(strip(line)))
         target == IF agent # None THEN agent ELSE current_agent
     IN  /\ current_agent' = target
         /\ ProcessBegin(target, strip(line))
  /\ pc' = "await"
  /\ UNCHANGED fixedVars

\* a slip : the test of line 186 left out, so that the result of get_agent is
\* assigned whatever it is
SwitchUnchecked(line) ==
  /\ ReadLine(line)
  /\ ~IsExit(strip(line))
  /\ IsSwitch(strip(line))
  /\ current_agent' = get_agent(agents, SwitchName(strip(line)))
  /\ UNCHANGED <<pc, agentVars, fixedVars>>

\* lines 183-191
Switch(line) ==
  /\ ReadLine(line)
  /\ ~IsExit(strip(line))
  /\ IsSwitch(strip(line))
  /\ LET agent == get_agent(agents, SwitchName(strip(line)))
     IN  current_agent' = IF agent # None THEN agent ELSE current_agent
  /\ UNCHANGED <<pc, agentVars, fixedVars>>

\* a slip : the test of line 193 left out, so that an empty message is forwarded
BlankForwarded(line) ==
  /\ ReadLine(line)
  /\ ~IsExit(strip(line))
  /\ ~IsSwitch(strip(line))
  /\ strip(line) = <<>>
  /\ ProcessBegin(current_agent, strip(line))
  /\ pc' = "await"
  /\ UNCHANGED <<current_agent, fixedVars>>

\* lines 193-194
Blank(line) ==
  /\ ReadLine(line)
  /\ ~IsExit(strip(line))
  /\ ~IsSwitch(strip(line))
  /\ strip(line) = <<>>
  /\ UNCHANGED <<pc, current_agent, agentVars, fixedVars>>

\* a slip : process started as a task and not awaited, so that the loop reads
\* the next line while the call is in flight
ForwardNoAwait(line) ==
  /\ ReadLine(line)
  /\ ~IsExit(strip(line))
  /\ ~IsSwitch(strip(line))
  /\ strip(line) # <<>>
  /\ ProcessBegin(current_agent, strip(line))
  /\ pc' = "input"
  /\ UNCHANGED <<current_agent, fixedVars>>

\* lines 196-198 : the call of current_agent.process, up to its await
Forward(line) ==
  /\ ReadLine(line)
  /\ ~IsExit(strip(line))
  /\ ~IsSwitch(strip(line))
  /\ strip(line) # <<>>
  /\ ProcessBegin(current_agent, strip(line))
  /\ pc' = "await"
  /\ UNCHANGED <<current_agent, fixedVars>>

mainVars == <<current_agent, user_input, raw_line, nlines>>

\* the completion service makes one function invocation
ToolCall(a, function_name, arguments) ==
  /\ pc = "await"
  /\ ntools < MaxToolCalls
  /\ ToolInvoked(a, function_name, arguments)
  /\ UNCHANGED <<pc, mainVars, fixedVars>>

\* lines 198-199 : process returned, the response is printed, the loop goes on
Respond(a, text) ==
  /\ pc = "await"
  /\ ProcessReturns(a, text)
  /\ pc' = "input"
  /\ UNCHANGED <<mainVars, fixedVars>>

\* line 198 : process raised; main has no handler either, the session ends
Crash(a) ==
  /\ pc = "await"
  /\ ProcessRaises(a)
  /\ pc' = "crashed"
  /\ UNCHANGED <<mainVars, fixedVars>>

(***************************************************************************)
(* The chat loop of demo-1.py (lines 33-53): the same loop without agents, *)
(* switch lines or kernel functions; the body of process is in the loop.   *)
(***************************************************************************)
\* line 35 : input("User: ").strip()
Demo1ReadLine(line) ==
  /\ program = "demo-1"
  /\ pc = "input"
  /\ nlines < MaxLines
  /\ raw_line' = line
  /\ user_input' = strip(line)
  /\ nlines' = nlines + 1

\* lines 37-39
Demo1Exit(line) ==
  /\ Demo1ReadLine(line)
  /\ lower(strip(line)) = ExitWord
  /\ pc' = "exited"
  /\ UNCHANGED <<current_agent, agentVars, fixedVars>>

\* lines 41-42
Demo1Blank(line) ==
  /\ Demo1ReadLine(line)
  /\ lower(strip(line)) # ExitWord
  /\ strip(line) = <<>>
  /\ UNCHANGED <<pc, current_agent, agentVars, fixedVars>>

\* lines 44-49 : the request carries default settings and no kernel
Demo1Forward(line) ==
  /\ Demo1ReadLine(line)
  /\ lower(strip(line)) # ExitWord
  /\ strip(line) # <<>>
  /\ SendRequest(Demo1, strip(line), {}, None)
  /\ pc' = "await"
  /\ UNCHANGED <<current_agent, fixedVars>>

\* lines 51-53 : the response is appended and printed, the loop goes on
Demo1Respond(text) ==
  /\ program = "demo-1"
  /\ pc = "await"
  /\ ProcessReturns(Demo1, text)
  /\ pc' = "input"
  /\ UNCHANGED <<mainVars, fixedVars>>

\* lines 46-49 : the await raised; nothing handles it, the session ends
Demo1Crash ==
  /\ program = "demo-1"
  /\ pc = "await"
  /\ ProcessRaises(Demo1)
  /\ pc' = "crashed"
  /\ UNCHANGED <<mainVars, fixedVars>>

Next ==
  \/ \E line \in Lines : Demo1Exit(line)
  \/ \E line \in Lines : Demo1Blank(line)
  \/ \E line \in Lines : Demo1Forward(line)
  \/ \E text \in Replies : Demo1Respond(text)
  \/ Demo1Crash
  \/ \E line \in Lines : Exit(line)
  \/ \E line \in Lines : Switch(line)
  \/ \E line \in Lines : Blank(line)
  \/ \E line \in Lines : Forward(line)
  \/ \E a \in Instances, f \in {"search_information", "analyze_data", "create_content"} :
       \E arguments \in Arguments(f) : ToolCall(a, f, arguments)
  \/ \E a \in Instances, text \in Replies : Respond(a, text)
  \/ \E a \in Instances : Crash(a)

Spec == Init /\ [][Next]_vars


(***************************************************************************)
(* The same session against a completion service that answers every        *)
(* request with a function call: it never returns a final message and      *)
(* never fails.                                                            *)
(***************************************************************************)
\* the completion service makes one more function invocation
ToolCallAgain(a, function_name, arguments) ==
  /\ pc = "await"
  /\ iters[a] < MaxToolIters
  /\ ToolInvoked(a, function_name, arguments)
  /\ UNCHANGED <<pc, mainVars, fixedVars>>

NextToolLoop ==
  \/ \E line \in Lines : Switch(line)
  \/ \E line \in Lines : Blank(line)
  \/ \E line \in Lines : Forward(line)
  \/ \E a \in Instances, f \in {"search_information", "analyze_data", "create_content"} :
       \E arguments \in Arguments(f) : ToolCallAgain(a, f, arguments)

SpecToolLoop == InitDemo2 /\ [][NextToolLoop]_vars

(***************************************************************************)
(* The Orchestrator on its own (demo-2.py, lines 110-121): any sequence of *)
(* add_agent, get_agent and list_agents calls on a new Orchestrator, with  *)
(* Agents some of which carry the same name.                               *)
(***************************************************************************)
\* Orchestrator.__init__ : self.agents = {}
InitOrchestrator ==
  /\ ConstructedInit
  /\ program = "demo-2"
  /\ agents = <<>>
  /\ added = <<>>
  /\ current_agent = None
  /\ pc = "orchestrator"

sessionVars == <<current_agent, user_input, pc, raw_line, nlines, kernel_plugins, program>>

AddAgent(a) ==
  /\ pc = "orchestrator"
  /\ Len(added) < MaxAdds
  /\ agents' = add_agent(agents, a)
  /\ added' = Append(added, a)
  /\ ret' = [op |-> "add_agent", name |-> Agent(a).name, agent |-> a, summaries |-> <<>>,
             raised |-> None, before |-> agents]
  /\ UNCHANGED <<sessionVars, agentVars>>

GetAgent(name) ==
  /\ pc = "orchestrator"
  /\ ret' = [op |-> "get_agent", name |-> name, agent |-> get_agent(agents, name),
             summaries |-> <<>>, raised |-> None, before |-> agents]
  /\ UNCHANGED <<agents, added, sessionVars, agentVars>>

ListAgents ==
  /\ pc = "orchestrator"
  /\ ret' = [op |-> "list_agents", name |-> <<>>, agent |-> None,
             summaries |-> list_agents(agents), raised |-> None, before |-> agents]
  /\ UNCHANGED <<agents, added, sessionVars, agentVars>>

NextOrchestrator ==
  \/ \E a \in Instances : AddAgent(a)
  \/ \E name \in Names : GetAgent(name)
  \/ ListAgents

SpecOrchestrator == InitOrchestrator /\ [][NextOrchestrator]_vars

(***************************************************************************)
(* The kernel functions called directly (demo-2.py, lines 21-67): the      *)
(* arguments are drawn at the start, one step calls one function on them.  *)
(***************************************************************************)
MaxTopicLen == 3

TopicChars == {"a", "i", "A", "I", "x"}

\* every text of at most n characters out of chars
RECURSIVE Texts(_, _)
Texts(chars, n) ==
  IF n = 0 THEN {<<>>}
  ELSE LET shorter == Texts(chars, n - 1)
       IN  shorter \cup {Append(s, c) : s \in shorter, c \in chars}

Topics ==
  Texts(TopicChars, MaxTopicLen)
    \cup {KeyPython, TopicPython, TopicPythonUpper, TopicBlockchain, KeyQuantumComputing,
          TopicQuantum, TopicRust, TopicAI, DataQ3}

Styles == {StyleCasual, StyleFormal, StyleProfessional, StyleTwoLines}

\* the positional arguments of a call : the topic (or data description), the style
PluginArguments == {<<topic, style>> : topic \in Topics, style \in Styles}

InitPlugins ==
  /\ chat_history = [a \in Owners |-> InitialChatHistory(a)]
  /\ kernel_plugins = [a \in Owners |-> <<>>]
  /\ astate = [a \in Owners |-> "Idle"]
  /\ iters = [a \in Owners |-> 0]
  /\ request = NoRequest
  /\ outcome = NoOutcome
  /\ user_input = <<>>
  /\ raw_line = <<>>
  /\ calls = <<>>
  /\ nlines = 0
  /\ ntools = 0
  /\ program = "demo-2"
  /\ agents = <<>>
  /\ added = <<>>
  /\ current_agent = None
  /\ pc = "plugins"
  /\ \E arguments \in PluginArguments :
       ret = [op |-> None, arguments |-> arguments, value |-> <<>>]

\* lines 21-37
SearchInformation ==
  /\ pc = "plugins"
  /\ ret.op = None
  /\ ret' = [ret EXCEPT !.op = "search_information",
                        !.value = search_information(ret.arguments[1])]
  /\ UNCHANGED <<agents, added, sessionVars, agentVars>>

\* lines 46-51
AnalyzeData ==
  /\ pc = "plugins"
  /\ ret.op = None
  /\ ret' = [ret EXCEPT !.op = "analyze_data", !.value = analyze_data(ret.arguments[1])]
  /\ UNCHANGED <<agents, added, sessionVars, agentVars>>

\* lines 61-67
CreateContent ==
  /\ pc = "plugins"
  /\ ret.op = None
  /\ ret' = [ret EXCEPT !.op = "create_content",
                        !.value = create_content(ret.arguments[1], ret.arguments[2])]
  /\ UNCHANGED <<agents, added, sessionVars, agentVars>>

NextPlugins == SearchInformation \/ AnalyzeData \/ CreateContent

SpecPlugins == InitPlugins /\ [][NextPlugins]_vars

(***************************************************************************)
(* The plugin set-up of the Agents (demo-2.py, lines 75 and 90-91): every  *)
(* Agent has its kernel, still without plugins; one step is one add_plugin *)
(* call.                                                                   *)
(***************************************************************************)
MaxPlugins == 2

Plugins == {"ResearchPlugin", "DataAnalysisPlugin", "WritingPlugin"}

\* main names each plugin after its class (lines 164-166)
PluginNames == Plugins

SetupAgents == {MainAgents[i] : i \in DOMAIN MainAgents}

InitAgentSetup ==
  /\ chat_history = [a \in Owners |-> InitialChatHistory(a)]
  /\ kernel_plugins = [a \in Owners |-> <<>>]
  /\ astate = [a \in Owners |-> "Idle"]
  /\ iters = [a \in Owners |-> 0]
  /\ request = NoRequest
  /\ outcome = NoOutcome
  /\ user_input = <<>>
  /\ raw_line = <<>>
  /\ calls = <<>>
  /\ nlines = 0
  /\ ntools = 0
  /\ program = "demo-2"
  /\ agents = <<>>
  /\ added = <<>>
  /\ current_agent = None
  /\ pc = "setup"
  /\ ret = NoReturn

\* lines 90-91 : self.kernel.add_plugin(plugin, plugin_name); added records the call
AddPlugin(a, plugin, plugin_name) ==
  /\ pc = "setup"
  /\ Len(added) < MaxPlugins
  /\ kernel_plugins' = [kernel_plugins EXCEPT ![a] = add_plugin(@, plugin, plugin_name)]
  /\ added' = Append(added, [agent |-> a, plugin |-> plugin, plugin_name |-> plugin_name])
  /\ ret' = [op |-> "add_plugin", name |-> plugin_name, agent |-> a, summaries |-> <<>>,
             raised |-> None, before |-> kernel_plugins]
  /\ UNCHANGED <<agents, program, current_agent, user_input, pc, raw_line, nlines, agentVars>>

NextAgentSetup ==
  \E a \in SetupAgents, plugin \in Plugins, plugin_name \in PluginNames :
    AddPlugin(a, plugin, plugin_name)

SpecAgentSetup == InitAgentSetup /\ [][NextAgentSetup]_vars

(***************************************************************************)
(* Properties.                                                             *)
(***************************************************************************)
\* the process calls made on agent a, in order
CallsOn(a) == SelectSeq(calls, LAMBDA c : c.agent = a)

\* the number of process calls on agent a that returned
Returned(a) == Cardinality({i \in DOMAIN calls : calls[i].agent = a /\ calls[i].status = "returned"})

UserTurns(h) == {i \in DOMAIN h : h[i].role = "User"}

\* the place of the k-th User turn of h, and of the last turn before the next one
NthUser(h, k) == CHOOSE i \in UserTurns(h) : Cardinality({j \in UserTurns(h) : j <= i}) = k

GroupEnd(h, k) == IF k < Cardinality(UserTurns(h)) THEN NthUser(h, k + 1) - 1 ELSE Len(h)

IsPrefix(s, t) == Len(s) <= Len(t) /\ SubSeq(t, 1, Len(s)) = s

\* C1: after N returned process calls on an Agent (in demo-1.py: N answered
\* messages of the loop) its chat history has at
\* least 1 + 2N turns; after the first turn it is the concatenation, call by
\* call, of one User turn carrying the call's message, then only ToolResult
\* turns, then (for a call that returned) exactly one Assistant turn.
C1_TurnsPerCall ==
  \A a \in Owners :
    LET h == chat_history[a]
        cs == CallsOn(a)
    IN  /\ Len(h) >= 1 + 2 * Returned(a)
        /\ Cardinality(UserTurns(h)) = Len(cs)
        /\ IF cs = <<>> THEN Len(h) = 1 ELSE NthUser(h, 1) = 2
        /\ \A k \in DOMAIN cs :
             LET first == NthUser(h, k)
                 last == GroupEnd(h, k)
             IN  /\ h[first].content = cs[k].message
                 /\ cs[k].status = "returned" =>
                      /\ last > first
                      /\ h[last].role = "Assistant"
                      /\ \A j \in (first + 1)..(last - 1) : h[j].role = "ToolResult"
                 /\ cs[k].status # "returned" =>
                      \A j \in (first + 1)..last : h[j].role = "ToolResult"

\* two calls on one agent have returned, one of them after a function invocation
C1_Witness ==
  \E a \in Owners :
    /\ Returned(a) >= 2
    /\ \E i \in DOMAIN chat_history[a] : chat_history[a][i].role = "ToolResult"

\* C2: the first turn of every Agent's chat history is the System turn holding
\* the Agent's system_message, and no other turn is a System turn.
C2_SystemTurnFirst ==
  \A a \in Owners :
    LET h == chat_history[a]
    IN  /\ h # <<>>
        /\ h[1] = Turn("System", IF a = Demo1 THEN Demo1SystemMessage
                                  ELSE Agent(a).system_message)
        /\ \A i \in 2..Len(h) : h[i].role # "System"

\* after a switch, a returned call and a failed call
C2_Witness ==
  /\ program = "demo-2"
  /\ pc = "crashed"
  /\ current_agent # "coordinator_agent"
  /\ \E i \in DOMAIN calls : calls[i].status = "returned"
  /\ Len(chat_history[current_agent]) >= 3

\* C3: no step removes, rewrites or reorders a turn: every chat history is a
\* prefix of what it is after the step.
C3_AppendOnly ==
  [][\A a \in Owners : IsPrefix(chat_history[a], chat_history'[a])]_vars

\* a process call has failed after turns were appended for it
C3_Witness ==
  /\ outcome.kind = "raised"
  /\ \E i \in DOMAIN calls :
       calls[i].status = "raised"
         /\ Len(chat_history[calls[i].agent]) > Len(calls[i].before)

\* C4 as claimed: after a failed process call the chat history is the one
\* before the call extended by exactly the User turn.
C4_OnlyUserTurnKept ==
  \A i \in DOMAIN calls :
    calls[i].status = "raised" =>
      /\ outcome.kind = "raised"
      /\ outcome.error = "CompletionServiceError"
      /\ chat_history[calls[i].agent]
           = Append(calls[i].before, Turn("User", calls[i].message))

\* C4, amended: after a failed process call the chat history is the one before
\* the call extended by the User turn and then by the ToolResult turns of the
\* function invocations made before the failure; no Assistant turn is appended.
C4_UserAndToolTurnsKept ==
  \A i \in DOMAIN calls :
    calls[i].status = "raised" =>
      LET a == calls[i].agent
          h == chat_history[a]
          base == Append(calls[i].before, Turn("User", calls[i].message))
      IN  /\ outcome.kind = "raised"
          /\ outcome.error = "CompletionServiceError"
          /\ IsPrefix(base, h)
          /\ Len(h) = Len(base) + iters[a]
          /\ \A j \in (Len(base) + 1)..Len(h) : h[j].role = "ToolResult"

\* a call failed after a function invocation, on an agent with an earlier call
C4_Witness ==
  \E i \in DOMAIN calls :
    /\ calls[i].status = "raised"
    /\ iters[calls[i].agent] >= 1
    /\ Len(calls[i].before) >= 3

\* C5 as claimed: against a completion service that always asks for a
\* function call, a process call that has made as many function invocations
\* as the iteration cap has ended by raising ToolLoopExceededError.
C5_ToolLoopCapped ==
  \A a \in Owners :
    iters[a] >= IterationCap =>
      /\ astate[a] = "Idle"
      /\ outcome.kind = "raised"
      /\ outcome.error = "ToolLoopExceededError"

\* the add_agent calls made with an Agent of the given name
AddedAs(name) == {k \in DOMAIN added : Agent(added[k]).name = name}

\* the Agent most recently added under the name, None if there was none
LastAdded(name) ==
  IF AddedAs(name) = {} THEN None
  ELSE added[CHOOSE k \in AddedAs(name) : \A j \in AddedAs(name) : j <= k]

\* C6: get_agent(n) gives the Agent instance (most recently) added under the
\* name n, and None, raising nothing, for a name never added; a get_agent call
\* leaves the mapping as it was.
C6_GetAgent ==
  /\ \A name \in Names : get_agent(agents, name) = LastAdded(name)
  /\ ret.op = "get_agent" =>
       /\ ret.agent = LastAdded(ret.name)
       /\ ret.raised = None
       /\ agents = ret.before

\* get_agent has answered for a name never added, with other agents registered
C6_Witness ==
  /\ ret.op = "get_agent"
  /\ ret.agent = None
  /\ AddedAs(ret.name) = {}
  /\ Len(agents) >= 2

\* C7 as claimed: add_agent with a name already in the mapping (here: held by
\* another Agent) fails with DuplicateAgentNameError and leaves the mapping
\* unchanged.
C7_DuplicateRejected ==
  (ret.op = "add_agent" /\ dict_has(ret.before, ret.name)
     /\ dict_get(ret.before, ret.name) # ret.agent) =>
    /\ ret.raised = "DuplicateAgentNameError"
    /\ agents = ret.before

\* C7, amended: add_agent with a name already in the mapping raises nothing and
\* replaces the Agent registered under the name; the name keeps its place and
\* every other entry is unchanged.
C7_DuplicateReplaces ==
  (ret.op = "add_agent" /\ dict_has(ret.before, ret.name)) =>
    /\ ret.raised = None
    /\ Len(agents) = Len(ret.before)
    /\ \A i \in DOMAIN agents :
         /\ agents[i].key = ret.before[i].key
         /\ agents[i].value = IF agents[i].key = ret.name THEN ret.agent
                              ELSE ret.before[i].value

\* a name was registered again with another Agent, among other names
C7_Witness ==
  /\ ret.op = "add_agent"
  /\ dict_has(ret.before, ret.name)
  /\ dict_get(ret.before, ret.name) # ret.agent
  /\ Len(agents) >= 2

\* the first add_agent call made with the given Agent instance
FirstAddedAt(a) == CHOOSE k \in DOMAIN added : added[k] = a /\ \A j \in 1..(k - 1) : added[j] # a

\* the first add_agent call made under the given name
FirstNamedAt(name) == CHOOSE k \in AddedAs(name) : \A j \in AddedAs(name) : k <= j

\* one summary per name of the mapping, with the role of the Agent get_agent gives
SummariesMatch(summaries, mapping) ==
  /\ Len(summaries) = Len(mapping)
  /\ Len(summaries) = Cardinality({Agent(added[k]).name : k \in DOMAIN added})
  /\ \A i, j \in DOMAIN summaries : summaries[i].name = summaries[j].name => i = j
  /\ \A i \in DOMAIN summaries :
       /\ dict_has(mapping, summaries[i].name)
       /\ summaries[i].role = Agent(get_agent(mapping, summaries[i].name)).role

\* C8 as claimed: list_agents gives one summary per name, with the role of the
\* Agent get_agent gives, in the order in which those Agents were inserted.
C8_AgentInsertionOrder ==
  LET summaries == list_agents(agents)
  IN  /\ SummariesMatch(summaries, agents)
      /\ \A i, j \in DOMAIN summaries :
           i < j => FirstAddedAt(get_agent(agents, summaries[i].name))
                      < FirstAddedAt(get_agent(agents, summaries[j].name))

\* C8, amended: list_agents gives one summary per name, with the role of the
\* Agent get_agent gives, in the order in which the names were first inserted.
C8_NameInsertionOrder ==
  LET summaries == list_agents(agents)
  IN  /\ SummariesMatch(summaries, agents)
      /\ ret.op = "list_agents" => ret.summaries = summaries /\ agents = ret.before
      /\ \A i, j \in DOMAIN summaries :
           i < j => FirstNamedAt(summaries[i].name) < FirstNamedAt(summaries[j].name)

\* list_agents has answered after a name was registered a second time
C8_Witness ==
  /\ ret.op = "list_agents"
  /\ Len(ret.summaries) >= 2
  /\ Len(added) > Len(agents)
  /\ \E i \in DOMAIN agents : agents[i].value # added[FirstNamedAt(agents[i].key)]

\* the step appends exactly one process call, on agent a with the given message
OneCallMade(a, message) ==
  /\ Len(calls') = Len(calls) + 1
  /\ SubSeq(calls', 1, Len(calls)) = calls
  /\ calls'[Len(calls')].agent = a
  /\ calls'[Len(calls')].message = message

\* the step reads a line
LineRead == nlines' = nlines + 1

\* whoever the loop forwards a message to : the current agent (demo-2.py), or
\* the one chat of demo-1.py
Addressee == IF program = "demo-2" THEN current_agent ELSE Demo1

\* the line counts as a switch line : demo-1.py has none
SwitchLine(text) == program = "demo-2" /\ startswith(text, SwitchPrefix)

\* C9: the pointer starts at the Coordinator; a step changes it only by
\* reading a switch line whose name (the text between the first and the second
\* colon, trimmed) is registered, and then the pointer is that Agent; every
\* other step leaves it unchanged; no switch line reaches process.
C9_PointerFrame ==
  /\ [](program = "demo-2" /\ nlines = 0 => current_agent = "coordinator_agent")
  /\ [](\A i \in DOMAIN calls : calls[i].agent \in Instances => ~IsSwitch(calls[i].message))
  /\ [][IF program = "demo-2" /\ LineRead /\ IsSwitch(user_input')
        THEN /\ calls' = calls
             /\ chat_history' = chat_history
             /\ current_agent' =
                  IF dict_has(agents, SwitchName(user_input'))
                  THEN get_agent(agents, SwitchName(user_input'))
                  ELSE current_agent
        ELSE current_agent' = current_agent]_vars

\* after a switch that took effect, a switch to an unknown name was read
C9_Witness ==
  /\ program = "demo-2"
  /\ current_agent # "coordinator_agent"
  /\ pc = "input"
  /\ IsSwitch(user_input)
  /\ ~dict_has(agents, SwitchName(user_input))

\* a line is blank when nothing but white space is in it
IsBlank(line) == \A i \in DOMAIN line : line[i] \in Whitespace

\* C10 as claimed: a line that is not exit (in any letter case), does not begin
\* with switch: and is not blank causes exactly one process call on the current
\* agent with the line's text as the message; a blank line causes none.  (The
\* line is classified without the white space at its ends, as the loop does.)
C10_LineForwardedVerbatim ==
  [][LineRead =>
       IF ~IsBlank(raw_line') /\ lower(strip(raw_line')) # ExitWord
            /\ ~SwitchLine(strip(raw_line'))
       THEN OneCallMade(Addressee, raw_line')
       ELSE IsBlank(raw_line') => calls' = calls /\ chat_history' = chat_history]_vars

\* C10, amended: a line whose text with the white space at its ends removed is
\* not exit (in any letter case), does not begin with switch: and is not empty
\* causes exactly one process call on the current agent with that trimmed text
\* as the message; a blank line causes no call and changes no chat history; no
\* other step makes a process call.
C10_LineForwardedTrimmed ==
  [][IF LineRead
     THEN IF ~IsBlank(raw_line') /\ lower(strip(raw_line')) # ExitWord
               /\ ~SwitchLine(strip(raw_line'))
          THEN /\ OneCallMade(Addressee, strip(raw_line'))
               /\ current_agent' = current_agent
               /\ astate'[Addressee] = "AwaitingCompletion"
          ELSE /\ SwitchLine(strip(raw_line')) \/ IsBlank(raw_line')
                    \/ lower(strip(raw_line')) = ExitWord
               /\ calls' = calls
               /\ IsBlank(raw_line') => chat_history' = chat_history
     ELSE Len(calls') = Len(calls)]_vars

\* a line typed with white space around it was forwarded to an agent switched to
C10_Witness ==
  /\ program = "demo-2"
  /\ pc = "await"
  /\ raw_line # user_input
  /\ current_agent # "coordinator_agent"
  /\ calls # <<>>
  /\ calls[Len(calls)].agent = current_agent
  /\ calls[Len(calls)].message = user_input

\* the session is over : the loop was left by break, or by an error nothing caught
SessionOver == pc \in {"exited", "crashed"}

\* C11 as claimed: a line that is exit in any letter case ends the session
\* without a process call, and nothing but such a line ends the session.  (The
\* line is taken without the white space at its ends, as the loop does.)
C11_ExitAloneEnds ==
  /\ (nlines > 0 /\ IsExit(user_input)) =>
       /\ pc = "exited"
       /\ \A i \in DOMAIN calls : calls[i].status # "in flight"
  /\ SessionOver => IsExit(user_input)

\* the contents of the User turns of a chat history, in order
UserContents(h) == LET users == SelectSeq(h, LAMBDA turn : turn.role = "User")
                   IN  [i \in DOMAIN users |-> users[i].content]

\* the messages of the process calls made on agent a, in order
MessagesTo(a) == [i \in DOMAIN CallsOn(a) |-> CallsOn(a)[i].message]

\* the step belongs to a process call : it starts one, or changes a chat history
\* or the state of an agent
CallStep == calls' # calls \/ chat_history' # chat_history \/ astate' # astate

\* C12: a step of a process call on one agent (the one addressed) leaves the
\* chat history and the kernel plugins of every other agent, and the
\* Orchestrator's mapping, unchanged; the User turns of each chat history are
\* exactly the messages forwarded to its agent while it was the one addressed.
C12_NoSharedState ==
  /\ [](\A a \in Owners : UserContents(chat_history[a]) = MessagesTo(a))
  /\ [][CallStep =>
          /\ astate[Addressee] = "AwaitingCompletion"
               \/ astate'[Addressee] = "AwaitingCompletion"
          /\ Len(calls') > Len(calls) => calls'[Len(calls')].agent = Addressee
          /\ \A b \in Owners \ {Addressee} :
               /\ chat_history'[b] = chat_history[b]
               /\ astate'[b] = astate[b]
          /\ kernel_plugins' = kernel_plugins
          /\ agents' = agents]_vars

\* a call on one agent returned, a later call on another agent failed
C12_Witness ==
  \E i, j \in DOMAIN calls :
    /\ calls[i].agent \in Instances
    /\ calls[j].agent \in Instances
    /\ calls[i].agent # calls[j].agent
    /\ calls[i].status = "returned"
    /\ calls[j].status = "raised"

\* the process calls that have neither returned nor raised
InFlight == {i \in DOMAIN calls : calls[i].status = "in flight"}

\* the place of the User turn of the i-th process call in its chat history
CallStart(i) == Len(calls[i].before) + 1

\* C13: at most one process call is in flight, and only while the loop waits
\* for it; a line is read only when no call is in flight; in a chat history the
\* User turn of the next call on the same agent comes right after the Assistant
\* turn of the call before it, with only that call's ToolResult turns between
\* its User turn and its Assistant turn.
C13_OneCallInFlight ==
  /\ [](Cardinality(InFlight) <= 1)
  /\ [](pc = "await" <=> InFlight # {})
  /\ [](\A i \in InFlight : astate[calls[i].agent] = "AwaitingCompletion")
  /\ [](\A a \in Owners : astate[a] = "AwaitingCompletion" =>
          \E i \in InFlight : calls[i].agent = a)
  /\ [](\A i, j \in DOMAIN calls :
          /\ i < j
          /\ calls[i].agent = calls[j].agent
          /\ \A m \in (i + 1)..(j - 1) : calls[m].agent # calls[i].agent
          =>
            LET h == chat_history[calls[i].agent]
                end == Len(calls[j].before)
            IN  /\ calls[i].status = "returned"
                /\ CallStart(i) < end
                /\ end < Len(h)
                /\ h[CallStart(i)] = Turn("User", calls[i].message)
                /\ h[end].role = "Assistant"
                /\ \A k \in (CallStart(i) + 1)..(end - 1) : h[k].role = "ToolResult"
                /\ h[end + 1] = Turn("User", calls[j].message))
  /\ [][LineRead => InFlight = {}]_vars

\* a second call on the same agent is in flight after the first one returned
C13_Witness ==
  \E i, j \in DOMAIN calls :
    /\ i < j
    /\ calls[i].agent = calls[j].agent
    /\ calls[i].agent \in Instances
    /\ calls[i].status = "returned"
    /\ j \in InFlight
    /\ ntools > 0

\* C14 as claimed: a process call that failed does not end the session; after
\* the failure the loop is at its input again, or waits for a later call, or
\* was left by exit.
C14_FailureNotFatal ==
  \A i \in DOMAIN calls : calls[i].status = "raised" => pc \in {"input", "await", "exited"}

\* C17 as claimed: the request of a process call on an Agent with no kernel
\* function carries no function and has the function choice behaviour off, and
\* no function is invoked during such a call.
C17_NoToolsNoChoice ==
  \A a \in Instances :
    request.agent = a /\ KernelFunctions(kernel_plugins[a]) = {} =>
      /\ request.manifest = {}
      /\ request.function_choice_behavior # "Auto"
      /\ iters[a] = 0

\* C19: when a process call has returned, the last turn of the agent's chat
\* history is an Assistant turn whose content is the value returned; the turns
\* the call added begin with the User turn holding its message, and only
\* ToolResult turns lie between that turn and the Assistant turn.
C19_ReturnsAppendedText ==
  outcome.kind = "returned" =>
    LET a == request.agent
        h == chat_history[a]
        c == calls[Len(calls)]
        first == Len(c.before) + 1
    IN  /\ c.agent = a
        /\ c.status = "returned"
        /\ IsPrefix(c.before, h)
        /\ first < Len(h)
        /\ h[Len(h)] = Turn("Assistant", outcome.value)
        /\ h[first] = Turn("User", c.message)
        /\ \A k \in (first + 1)..(Len(h) - 1) : h[k].role = "ToolResult"

\* a call on an Agent returned a text that is not empty, after a function invocation
C19_Witness ==
  /\ outcome.kind = "returned"
  /\ outcome.value # <<>>
  /\ request.agent \in Instances
  /\ iters[request.agent] > 0
  /\ Len(calls) > 1

\* C20: throughout the session of demo-2.py current_agent is an Agent instance
\* that the Orchestrator holds under its name : get_agent of its name returns
\* that same instance.
C20_CurrentAgentRegistered ==
  program = "demo-2" =>
    /\ current_agent \in Instances
    /\ dict_has(agents, Agent(current_agent).name)
    /\ get_agent(agents, Agent(current_agent).name) = current_agent

\* after a message and a switch that took effect, a switch to an unknown name
\* was read
C20_Witness ==
  /\ program = "demo-2"
  /\ pc = "input"
  /\ calls # <<>>
  /\ current_agent \notin {None, "coordinator_agent"}
  /\ IsSwitch(user_input)
  /\ get_agent(agents, SwitchName(user_input)) = None

\* the topic names the subject key : the key stands in the lower-cased topic as
\* a word of its own, no letter before it or after it
NamesSubject(topic, key) ==
  LET t == lower(topic)
      Letter(c) == \E k \in DOMAIN LowerLetters : LowerLetters[k] = c
  IN  \E i \in 1..(Len(t) - Len(key) + 1) :
        /\ SubSeq(t, i, i + Len(key) - 1) = key
        /\ i = 1 \/ ~Letter(t[i - 1])
        /\ i + Len(key) - 1 = Len(t) \/ ~Letter(t[i + Len(key)])

\* the generic answer of search_information, built around the topic
FallbackText(topic) == ResearchText1 \o topic \o ResearchText2

\* C15 as claimed: search_information returns the canned text of a subject
\* for a topic that names it, in any letter case, and for every other topic,
\* blockchain among them, the generic text containing the topic.
C15_CannedOrFallback ==
  ret.op = "search_information" =>
    LET topic == ret.arguments[1]
    IN  /\ \A i \in DOMAIN research_data :
             lower(topic) = research_data[i].key => ret.value = research_data[i].value
        /\ (\A i \in DOMAIN research_data : ~NamesSubject(topic, research_data[i].key)) =>
             /\ ret.value = FallbackText(topic)
             /\ contains(ret.value, topic)

\* the first line of a text : what stands before its first line break
FirstLine(text) == split(text, "\n")[1]

\* C18 as claimed: the first line of the text create_content returns is the
\* style in upper case between square brackets, and the text contains the
\* topic.
C18_FirstLineIsStyle ==
  ret.op = "create_content" =>
    /\ FirstLine(ret.value) = <<"[">> \o upper(ret.arguments[2]) \o <<"]">>
    /\ contains(ret.value, ret.arguments[1])

\* C18, amended: the text create_content returns begins with an opening
\* square bracket, the style in upper case, a space, the word CONTENT and a
\* closing square bracket, followed by an empty line, and the text contains
\* the topic.
C18_HeadingIsStyleContent ==
  ret.op = "create_content" =>
    /\ startswith(ret.value,
                  <<"[">> \o upper(ret.arguments[2])
                    \o <<" ", "C", "O", "N", "T", "E", "N", "T", "]", "\n", "\n">>)
    /\ contains(ret.value, ret.arguments[1])

\* create_content was called with the topic AI and the style casual
C18_Witness ==
  /\ ret.op = "create_content"
  /\ ret.arguments = <<TopicAI, StyleCasual>>
  /\ FirstLine(ret.value) = <<"[", "C", "A", "S", "U", "A", "L", " ", "C", "O", "N", "T", "E", "N", "T", "]">>

\* C16 as claimed: add_plugin under a name the Agent's kernel already has
\* fails with DuplicateToolError and leaves the Agent's plugins as they were;
\* under a name new to that kernel it succeeds, whatever the other kernels
\* have, and changes no other kernel.
C16_DuplicateToolRejected ==
  ret.op = "add_plugin" =>
    /\ \A b \in Owners \ {ret.agent} : kernel_plugins[b] = ret.before[b]
    /\ IF dict_has(ret.before[ret.agent], ret.name)
       THEN /\ ret.raised = "DuplicateToolError"
            /\ kernel_plugins[ret.agent] = ret.before[ret.agent]
       ELSE /\ ret.raised = None
            /\ dict_get(kernel_plugins[ret.agent], ret.name) = added[Len(added)].plugin

=============================================================================
